---- MODULE Spec2Model ----
(***************************************************************************)
(* Retrieval engine of m42-shop-etl (src/src/rag/vectorSearch.ts):         *)
(* vectorSearch, rerankResults, hybridSearch and keywordSearch, run        *)
(* against a read-only store of products and product chunks.               *)
(*                                                                         *)
(* Numbers.  Scores are IEEE doubles in the program.  They are modelled as *)
(* exact fractions [n, d] in lowest terms with d > 0, plus the one         *)
(* non-finite value the code can produce from a non-negative price, NaN    *)
(* (0/0), written [n |-> 0, d |-> 0].  Rounding of doubles is not          *)
(* modelled.                                                               *)
(*                                                                         *)
(* Optional values (undefined option, SQL NULL price) are sequences of     *)
(* length 0 or 1: <<>> is absent, <<x>> is present with value x.           *)
(***************************************************************************)
EXTENDS Integers, Sequences, FiniteSets, TLC

\* ------------------------------------------------------------------------
\* Exact fractions with NaN
\* ------------------------------------------------------------------------

Abs(x) == IF x < 0 THEN -x ELSE x

RECURSIVE GCD(_, _)
GCD(a, b) == IF b = 0 THEN a ELSE GCD(b, a % b)

NaN == [n |-> 0, d |-> 0]

IsNaN(x) == x.d = 0

\* the fraction num/den (den # 0) in lowest terms with a positive denominator
Frac(num, den) ==
    LET g == GCD(Abs(num), Abs(den))
        s == IF den < 0 THEN -1 ELSE 1
    IN  [n |-> (s * num) \div g, d |-> (s * den) \div g]

Zero == Frac(0, 1)
One == Frac(1, 1)

Add(a, b) == IF IsNaN(a) \/ IsNaN(b) THEN NaN
             ELSE Frac(a.n * b.d + b.n * a.d, a.d * b.d)

Sub(a, b) == IF IsNaN(a) \/ IsNaN(b) THEN NaN
             ELSE Frac(a.n * b.d - b.n * a.d, a.d * b.d)

Mul(a, b) == IF IsNaN(a) \/ IsNaN(b) THEN NaN
             ELSE Frac(a.n * b.n, a.d * b.d)

\* a / b for a, b >= 0 as used on prices; 0 / 0 is NaN.  (x / 0 with x # 0
\* needs a negative price and does not occur.)
Div(a, b) == IF IsNaN(a) \/ IsNaN(b) \/ b.n = 0 THEN NaN
             ELSE Frac(a.n * b.d, a.d * b.n)

\* a < b and a > b as IEEE comparisons: false when either side is NaN
Less(a, b) == ~IsNaN(a) /\ ~IsNaN(b) /\ a.n * b.d < b.n * a.d
Greater(a, b) == Less(b, a)
Leq(a, b) == ~IsNaN(a) /\ ~IsNaN(b) /\ a.n * b.d <= b.n * a.d

\* Math.max(a, b): NaN when either argument is NaN
MathMax(a, b) == IF IsNaN(a) \/ IsNaN(b) THEN NaN
                 ELSE IF Less(a, b) THEN b ELSE a

\* Math.abs
MathAbs(a) == IF IsNaN(a) THEN NaN ELSE Frac(Abs(a.n), a.d)

\* ------------------------------------------------------------------------
\* Sequence helpers
\* ------------------------------------------------------------------------

Range(s) == {s[i] : i \in 1..Len(s)}

\* s.slice(0, k) for k >= 0
Take(s, k) == SubSeq(s, 1, IF k < Len(s) THEN k ELSE Len(s))

\* rows after OFFSET k
Drop(s, k) == IF k >= Len(s) THEN <<>> ELSE SubSeq(s, k + 1, Len(s))

\* remaining.splice(i, 1), i counted from 1
RemoveAt(s, i) == SubSeq(s, 1, i - 1) \o SubSeq(s, i + 1, Len(s))

\* Stable descending sort of s, where keys[i] is the sort key of s[i]:
\* Array.prototype.sort with the comparator (a, b) => key(b) - key(a) on
\* finite keys, and ORDER BY key DESC over rows in store order.  Elements
\* with equal keys keep their order.
\* A NaN key makes the comparator inconsistent and the order
\* implementation-defined; no request sorts one (C19_ScoresAreNumbers), and
\* this definition puts such elements last.
SortDesc(s, keys) ==
    LET n == Len(s)
        before(i, j) == \/ Less(keys[j], keys[i])
                        \/ ~IsNaN(keys[i]) /\ IsNaN(keys[j])
        pos(i) == 1 + Cardinality({j \in 1..n : before(j, i)})
                    + Cardinality({j \in 1..(i - 1) :
                                       ~before(j, i) /\ ~before(i, j)})
    IN  IF n = 0 THEN <<>>
        ELSE [k \in 1..n |-> s[CHOOSE i \in 1..n : pos(i) = k]]

\* ------------------------------------------------------------------------
\* SearchOptions and their defaults (vectorSearch.ts:5-20, 47-55, 318-323)
\* ------------------------------------------------------------------------

DefaultLimit == 10
DefaultIncludeChunks == FALSE
MaxAttachedChunks == 3
DefaultOffset == 0
DefaultThreshold == Frac(1, 2)
DefaultVectorWeight == Frac(7, 10)
DefaultKeywordWeight == Frac(3, 10)
OversampleFactor == 3
HybridDefaultLimit == 10
Lambda == Frac(7, 10)

\* `x = dflt` in a destructuring pattern: the default applies to undefined
OrDefault(opt, dflt) == IF opt = <<>> THEN dflt ELSE opt[1]

LimitOf(o) == OrDefault(o.limit, DefaultLimit)
OffsetOf(o) == OrDefault(o.offset, DefaultOffset)
ThresholdOf(o) == OrDefault(o.threshold, DefaultThreshold)
VectorWeightOf(o) == OrDefault(o.vectorWeight, DefaultVectorWeight)
KeywordWeightOf(o) == OrDefault(o.keywordWeight, DefaultKeywordWeight)
IncludeChunksOf(o) == OrDefault(o.includeChunks, DefaultIncludeChunks)

\* ------------------------------------------------------------------------
\* Filter conditions
\* ------------------------------------------------------------------------

\* One pushed condition evaluated on a product row.  A comparison with a
\* NULL column is not true (price <<>>, category/brand/... "NULL").
CondHolds(c, p) ==
    CASE c.kind = "shopId"      -> p.shopId = c.arg
      [] c.kind = "priceGte"    -> p.price # <<>> /\ p.price[1] >= c.arg
      [] c.kind = "priceLte"    -> p.price # <<>> /\ p.price[1] <= c.arg
      [] c.kind = "category"    -> p.category # "NULL" /\ p.category \in c.arg
      [] c.kind = "brand"       -> p.brand # "NULL" /\ p.brand \in c.arg
      [] c.kind = "availability" ->
             p.availability # "NULL" /\ p.availability \in c.arg
      [] c.kind = "productType" ->
             p.productType # "NULL" /\ p.productType \in c.arg

\* the shopId and priceRange conditions, pushed by both retrievers
ShopAndPriceConditions(f) ==
    (IF f.shopId # <<>> THEN <<[kind |-> "shopId", arg |-> f.shopId[1]]>>
     ELSE <<>>)
    \o (IF f.priceRange # <<>> /\ f.priceRange[1].min # <<>>
        THEN <<[kind |-> "priceGte", arg |-> f.priceRange[1].min[1]]>>
        ELSE <<>>)
    \o (IF f.priceRange # <<>> /\ f.priceRange[1].max # <<>>
        THEN <<[kind |-> "priceLte", arg |-> f.priceRange[1].max[1]]>>
        ELSE <<>>)

\* the conditions on the four list filters; an empty list pushes nothing
ListConditions(f) ==
    (IF f.categories # {} THEN <<[kind |-> "category", arg |-> f.categories]>>
     ELSE <<>>)
    \o (IF f.brands # {} THEN <<[kind |-> "brand", arg |-> f.brands]>>
        ELSE <<>>)
    \o (IF f.availability # {}
        THEN <<[kind |-> "availability", arg |-> f.availability]>>
        ELSE <<>>)
    \o (IF f.productTypes # {}
        THEN <<[kind |-> "productType", arg |-> f.productTypes]>>
        ELSE <<>>)

\* a vectorSearch that pushes the shop and price conditions only
VectorFilterConditions_NoLists(f) == ShopAndPriceConditions(f)

\* filterConditions of vectorSearch
VectorFilterConditions(f) == ShopAndPriceConditions(f) \o ListConditions(f)

\* filterConditions of keywordSearch: the code stops after priceRange
\* ("// ... other filters")
KeywordFilterConditions(f) == ShopAndPriceConditions(f)

AllHold(conds, p) == \A i \in 1..Len(conds) : CondHolds(conds[i], p)

\* ------------------------------------------------------------------------
\* Vector retrieval and score aggregation
\* ------------------------------------------------------------------------

\* a chunk query that keeps similarity >= threshold
ChunkRowMatches_AtLeast(st, c, threshold, conds) ==
    /\ Leq(threshold, c.similarity)
    /\ conds # <<>> =>
           /\ c.productId \in DOMAIN st.products
           /\ AllHold(conds, st.products[c.productId])

\* WHERE clause of the chunk query: similarity > threshold AND, for each
\* condition, productId IN (SELECT id FROM products WHERE condition)
ChunkRowMatches(st, c, threshold, conds) ==
    /\ Greater(c.similarity, threshold)
    /\ conds # <<>> =>
           /\ c.productId \in DOMAIN st.products
           /\ AllHold(conds, st.products[c.productId])

\* the chunk query: WHERE, ORDER BY similarity DESC, LIMIT limit * 3, OFFSET
\* a chunk query keeping the rows below the threshold
ChunkQuery_BelowThreshold(st, o) ==
    LET Match(c) == Less(c.similarity, ThresholdOf(o))
        hits == SelectSeq(st.chunks, Match)
        rows == SortDesc(hits, [i \in 1..Len(hits) |-> hits[i].similarity])
    IN  Take(Drop(rows, OffsetOf(o)), LimitOf(o) * OversampleFactor)

\* the chunk query: WHERE, ORDER BY similarity DESC, LIMIT limit * 3, OFFSET
ChunkQuery(st, o) ==
    LET conds == VectorFilterConditions(o.filters)
        Match(c) == ChunkRowMatches(st, c, ThresholdOf(o), conds)
        hits == SelectSeq(st.chunks, Match)
        rows == SortDesc(hits, [i \in 1..Len(hits) |-> hits[i].similarity])
    IN  Take(Drop(rows, OffsetOf(o)), LimitOf(o) * OversampleFactor)

\* sum of the similarities of a chunk list (the reduce in the loop body)
RECURSIVE SumSimilarity(_)
SumSimilarity(cs) ==
    IF cs = <<>> THEN Zero
    ELSE Add(SumSimilarity(SubSeq(cs, 1, Len(cs) - 1)), cs[Len(cs)].similarity)

\* entry a product has before its first chunk is seen
InitialScore(pid) ==
    [productId |-> pid, maxSimilarity |-> Zero, avgSimilarity |-> Zero,
     chunks |-> <<>>]

\* an iteration that averages over the chunks seen before this one
AggregateChunk_AverageBeforePush(productScores, chunk) ==
    LET idx == {i \in 1..Len(productScores) :
                    productScores[i].productId = chunk.productId}
        existing == IF idx = {} THEN InitialScore(chunk.productId)
                    ELSE productScores[CHOOSE i \in idx : TRUE]
        chunks == Append(existing.chunks,
                         [chunkId |-> chunk.chunkId,
                          similarity |-> chunk.similarity])
        updated == [productId |-> chunk.productId,
                    maxSimilarity |->
                        MathMax(existing.maxSimilarity, chunk.similarity),
                    avgSimilarity |->
                        Div(SumSimilarity(existing.chunks),
                            Frac(Len(existing.chunks), 1)),
                    chunks |-> chunks]
    IN  IF idx = {} THEN Append(productScores, updated)
        ELSE [productScores EXCEPT ![CHOOSE i \in idx : TRUE] = updated]

\* one iteration of `for (const chunk of chunkResults)`; productScores is the
\* Map in insertion order
AggregateChunk(productScores, chunk) ==
    LET idx == {i \in 1..Len(productScores) :
                    productScores[i].productId = chunk.productId}
        existing == IF idx = {} THEN InitialScore(chunk.productId)
                    ELSE productScores[CHOOSE i \in idx : TRUE]
        chunks == Append(existing.chunks,
                         [chunkId |-> chunk.chunkId,
                          similarity |-> chunk.similarity])
        updated == [productId |-> chunk.productId,
                    maxSimilarity |->
                        MathMax(existing.maxSimilarity, chunk.similarity),
                    avgSimilarity |->
                        Mul(SumSimilarity(chunks), Frac(1, Len(chunks))),
                    chunks |-> chunks]
    IN  IF idx = {} THEN Append(productScores, updated)
        ELSE [productScores EXCEPT ![CHOOSE i \in idx : TRUE] = updated]

RECURSIVE Aggregate(_)
Aggregate(chunkRows) ==
    IF chunkRows = <<>> THEN <<>>
    ELSE AggregateChunk(Aggregate(SubSeq(chunkRows, 1, Len(chunkRows) - 1)),
                        chunkRows[Len(chunkRows)])

CombinedScore(scores) ==
    Add(Mul(scores.maxSimilarity, Frac(7, 10)),
        Mul(scores.avgSimilarity, Frac(3, 10)))

\* topProductIds without the slice(0, limit)
TopProductIds_NoSlice(productScores, limit) ==
    LET mapped == [i \in 1..Len(productScores) |->
                     [productId |-> productScores[i].productId,
                      combinedScore |-> CombinedScore(productScores[i]),
                      chunks |-> productScores[i].chunks]]
    IN  SortDesc(mapped, [i \in 1..Len(mapped) |-> mapped[i].combinedScore])

\* topProductIds: map, sort by combinedScore descending, slice(0, limit)
TopProductIds(productScores, limit) ==
    LET mapped == [i \in 1..Len(productScores) |->
                     [productId |-> productScores[i].productId,
                      combinedScore |-> CombinedScore(productScores[i]),
                      chunks |-> productScores[i].chunks]]
    IN  Take(SortDesc(mapped,
                      [i \in 1..Len(mapped) |-> mapped[i].combinedScore]),
             limit)

\* ------------------------------------------------------------------------
\* Result assembly
\* ------------------------------------------------------------------------

\* a SearchResult built from a product row and a score; name, description,
\* url and the remaining metadata are display fields no computation reads
MakeResult(pid, p, score, chunks) ==
    [productId |-> pid, price |-> p.price, brand |-> p.brand,
     category |-> p.category, similarity |-> score, chunks |-> chunks,
     productType |-> p.productType, availability |-> p.availability]

\* chunks attached without the slice
AttachedChunks_All(includeChunks, chunks) ==
    IF includeChunks
    THEN <<SortDesc(chunks, [i \in 1..Len(chunks) |-> chunks[i].similarity])>>
    ELSE <<>>

\* `includeChunks ? item.chunks.sort(...).slice(0, 3) : undefined`
\* (undefined is written <<>>)
AttachedChunks(includeChunks, chunks) ==
    IF includeChunks
    THEN <<Take(SortDesc(chunks,
                         [i \in 1..Len(chunks) |-> chunks[i].similarity]),
                MaxAttachedChunks)>>
    ELSE <<>>

\* an assembly that gives up at the first id without a row
AssembleResults_UntilMissing(st, top, includeChunks) ==
    LET missing == {i \in 1..Len(top) :
                        top[i].productId \notin DOMAIN st.products}
        n == IF missing = {} THEN Len(top)
             ELSE (CHOOSE i \in missing : \A j \in missing : i <= j) - 1
    IN  [i \in 1..n |->
            MakeResult(top[i].productId, st.products[top[i].productId],
                       top[i].combinedScore,
                       AttachedChunks(includeChunks, top[i].chunks))]

\* results: topProductIds joined with the fetched product rows; an id with
\* no row maps to null and is filtered out
AssembleResults(st, top, includeChunks) ==
    LET Resolved(item) == item.productId \in DOMAIN st.products
        kept == SelectSeq(top, Resolved)
    IN  [i \in 1..Len(kept) |->
            MakeResult(kept[i].productId, st.products[kept[i].productId],
                       kept[i].combinedScore,
                       AttachedChunks(includeChunks, kept[i].chunks))]

\* ------------------------------------------------------------------------
\* MMR reranking (rerankResults)
\* ------------------------------------------------------------------------

\* parseFloat of a stored price; prices are non-negative decimals
PriceNumber(price) == Frac(price[1], 1)

\* a pairwise similarity that sees no resemblance
PairSimilarity_None(selected, candidate) == Zero

\* the pairwise `similarity` of the inner loop.  A stored price is a string
\* such as "0.00", which is truthy, so only a NULL price skips the price term.
PairSimilarity(selected, candidate) ==
    LET cat == IF selected.category = candidate.category
               THEN Frac(3, 10) ELSE Zero
        br == Add(cat, IF selected.brand = candidate.brand
                       THEN Frac(3, 10) ELSE Zero)
    IN  IF selected.price # <<>> /\ candidate.price # <<>>
        THEN LET ps == PriceNumber(selected.price)
                 pc == PriceNumber(candidate.price)
                 priceDiff == MathAbs(Sub(ps, pc))
                 maxPrice == MathMax(ps, pc)
             IN  Add(br, Mul(Frac(4, 10), Sub(One, Div(priceDiff, maxPrice))))
        ELSE br

\* maxSimilarityToSelected after the loop over the first k selected results
RECURSIVE MaxSimilarityToSelected(_, _, _)
MaxSimilarityToSelected(reranked, candidate, k) ==
    IF k = 0 THEN Zero
    ELSE MathMax(MaxSimilarityToSelected(reranked, candidate, k - 1),
                 PairSimilarity(reranked[k], candidate))

\* a score that rewards resemblance to the selected results
MmrScore_AddsPenalty(reranked, candidate, lambda) ==
    Add(Mul(lambda, candidate.similarity),
        Mul(Sub(One, lambda),
            MaxSimilarityToSelected(reranked, candidate, Len(reranked))))

MmrScore(reranked, candidate, lambda) ==
    Sub(Mul(lambda, candidate.similarity),
        Mul(Sub(One, lambda),
            MaxSimilarityToSelected(reranked, candidate, Len(reranked))))

\* `mmrScore > bestScore`, bestScore starting at -Infinity (written <<>>)
BeatsBest(mmrScore, bestScore) ==
    IF bestScore = <<>> THEN ~IsNaN(mmrScore)
    ELSE Greater(mmrScore, bestScore[1])

\* the scan `for (let i = 0; ...)` from position i on; returns bestIndex
\* counted from 1, or 0 where the code leaves -1
RECURSIVE ScanBest(_, _, _, _, _, _)
ScanBest(reranked, remaining, lambda, i, bestScore, bestIndex) ==
    IF i > Len(remaining) THEN bestIndex
    ELSE LET mmrScore == MmrScore(reranked, remaining[i], lambda)
         IN  IF BeatsBest(mmrScore, bestScore)
             THEN ScanBest(reranked, remaining, lambda, i + 1,
                           <<mmrScore>>, i)
             ELSE ScanBest(reranked, remaining, lambda, i + 1,
                           bestScore, bestIndex)

BestIndex(reranked, remaining, lambda) ==
    ScanBest(reranked, remaining, lambda, 1, <<>>, 0)

\* the while loop
RECURSIVE RerankLoop(_, _, _, _)
RerankLoop(reranked, remaining, total, lambda) ==
    IF ~(Len(remaining) > 0 /\ Len(reranked) < total) THEN reranked
    ELSE LET bestIndex == BestIndex(reranked, remaining, lambda)
         IN  IF bestIndex >= 1
             THEN RerankLoop(Append(reranked, remaining[bestIndex]),
                             RemoveAt(remaining, bestIndex), total, lambda)
             ELSE reranked

RerankResults(results) ==
    IF results = <<>> THEN <<>>
    ELSE RerankLoop(<<Head(results)>>, Tail(results), Len(results), Lambda)

\* `if (rerank && results.length > 0)`
RerankInvoked(results, rerank) == rerank /\ Len(results) > 0

\* what vectorSearch returns once `results` is built
VectorReturn(results, rerank) ==
    IF RerankInvoked(results, rerank) THEN RerankResults(results)
    ELSE results

\* ------------------------------------------------------------------------
\* Lexical retrieval (keywordSearch)
\* ------------------------------------------------------------------------

\* WHERE clause of the keyword query.  and(...) joins its arguments with
\* " and " and adds no parentheses around the raw OR chain, so the filter
\* conditions bind to the last ILIKE (brand) only.
KeywordRowMatches(p, conds) ==
    \/ "name" \in p.ilike
    \/ "description" \in p.ilike
    \/ "category" \in p.ilike
    \/ ("brand" \in p.ilike /\ AllHold(conds, p))

\* GREATEST of the four field similarities
LexicalScore(p) ==
    MathMax(MathMax(p.trgm.name, p.trgm.description),
            MathMax(p.trgm.category, p.trgm.brand))

\* `product.similarity || 0`
OrZero(x) == IF IsNaN(x) \/ x = Zero THEN Zero ELSE x

\* the keyword query and the mapping of its rows; ORDER BY similarity is
\* read as ordering by the computed score column
KeywordSearch(st, o) ==
    LET conds == KeywordFilterConditions(o.filters)
        Match(pid) == KeywordRowMatches(st.products[pid], conds)
        Score(pid) == LexicalScore(st.products[pid])
        found == SelectSeq(st.productRows, Match)
        rows == SortDesc(found, [i \in 1..Len(found) |-> Score(found[i])])
        page == Take(Drop(rows, OffsetOf(o)), LimitOf(o))
    IN  [i \in 1..Len(page) |->
            MakeResult(page[i], st.products[page[i]], OrZero(Score(page[i])),
                       <<>>)]

\* ------------------------------------------------------------------------
\* Hybrid fusion (hybridSearch)
\* ------------------------------------------------------------------------

\* a keyword loop that overwrites the vector contribution
ScoreOrZero_Overwrite(combinedScores, pid) == Zero

\* Map.get(key) || 0 on the insertion-ordered combinedScores
ScoreOrZero(combinedScores, pid) ==
    LET idx == {i \in 1..Len(combinedScores) :
                    combinedScores[i].productId = pid}
    IN  IF idx = {} THEN Zero
        ELSE OrZero(combinedScores[CHOOSE i \in idx : TRUE].score)

\* Map.set(key, value): replaces in place or appends
MapSet(m, pid, entry) ==
    LET idx == {i \in 1..Len(m) : m[i].productId = pid}
    IN  IF idx = {} THEN Append(m, entry)
        ELSE [m EXCEPT ![CHOOSE i \in idx : TRUE] = entry]

\* the loop over vectorResults (first k results)
RECURSIVE AddVectorResults(_, _, _)
AddVectorResults(vectorRes, vectorWeight, k) ==
    IF k = 0 THEN <<>>
    ELSE MapSet(AddVectorResults(vectorRes, vectorWeight, k - 1),
                vectorRes[k].productId,
                [productId |-> vectorRes[k].productId,
                 score |-> Mul(vectorRes[k].similarity, vectorWeight),
                 result |-> vectorRes[k]])

\* a keyword loop that only updates products the vector side already found
RECURSIVE AddKeywordResults_OnlyKnown(_, _, _, _)
AddKeywordResults_OnlyKnown(m, keywordRes, keywordWeight, k) ==
    IF k = 0 THEN m
    ELSE LET prev == AddKeywordResults_OnlyKnown(m, keywordRes,
                                                 keywordWeight, k - 1)
             r == keywordRes[k]
             idx == {i \in 1..Len(prev) : prev[i].productId = r.productId}
         IN  IF idx = {} THEN prev
             ELSE [prev EXCEPT ![CHOOSE i \in idx : TRUE].score =
                       Add(@, Mul(r.similarity, keywordWeight))]

\* the loop over keywordResults (first k results); the stored result is
\* replaced only if the product is not present yet
RECURSIVE AddKeywordResults(_, _, _, _)
AddKeywordResults(m, keywordRes, keywordWeight, k) ==
    IF k = 0 THEN m
    ELSE LET prev == AddKeywordResults(m, keywordRes, keywordWeight, k - 1)
             r == keywordRes[k]
             idx == {i \in 1..Len(prev) : prev[i].productId = r.productId}
             kept == IF idx = {} THEN r
                     ELSE prev[CHOOSE i \in idx : TRUE].result
         IN  MapSet(prev, r.productId,
                    [productId |-> r.productId,
                     score |-> Add(ScoreOrZero(prev, r.productId),
                                   Mul(r.similarity, keywordWeight)),
                     result |-> kept])

\* `searchOptions.limit || 10`
HybridLimit(o) ==
    IF o.limit = <<>> \/ o.limit[1] = 0 THEN HybridDefaultLimit
    ELSE o.limit[1]

\* the body of hybridSearch after both retrievers have returned.  The rerank
\* option is not read here.
Fuse(vectorRes, keywordRes, o) ==
    LET m == AddKeywordResults(
                 AddVectorResults(vectorRes, VectorWeightOf(o),
                                  Len(vectorRes)),
                 keywordRes, KeywordWeightOf(o), Len(keywordRes))
        top == Take(SortDesc(m, [i \in 1..Len(m) |-> m[i].score]),
                    HybridLimit(o))
    IN  [i \in 1..Len(top) |->
            [top[i].result EXCEPT !.similarity = top[i].score]]

\* ------------------------------------------------------------------------
\* Bounded inputs
\* ------------------------------------------------------------------------

MaxLimit == 2
MaxOffset == 1

NoFilters ==
    [shopId |-> <<>>, priceRange |-> <<>>, categories |-> {}, brands |-> {},
     availability |-> {}, productTypes |-> {}]

\* the trigram similarities of a product whose best field scores k/10
Trgm(k) ==
    [name |-> Frac(k, 10), description |-> Frac(1, 10),
     category |-> Zero, brand |-> Frac(2, 10)]

Product(shop, price, cat, brand, avail, type, ilike, k) ==
    [shopId |-> shop, price |-> price, category |-> cat, brand |-> brand,
     availability |-> avail, productType |-> type, ilike |-> ilike,
     trgm |-> Trgm(k)]

Chunk(id, pid, sim) == [chunkId |-> id, productId |-> pid, similarity |-> sim]

ProductRows == <<"p1", "p2", "p3">>

SimValues == {Frac(0 - 3, 10), Frac(5, 10), Frac(7, 10), Frac(9, 10)}

IlikeChoices == {{}, {"name"}, {"brand"}}

\* Stores for the filter cases: fixed attributes, one chunk per product, the
\* fields matched by the query text vary.
FilterStores ==
    {[products |->
        [pid \in {"p1", "p2", "p3"} |->
            CASE pid = "p1" -> Product("s1", <<10>>, "c1", "b1", "in_stock",
                                       "food", il["p1"], 4)
              [] pid = "p2" -> Product("s1", <<30>>, "c2", "b2",
                                       "out_of_stock", "other", il["p2"], 4)
              [] pid = "p3" -> Product("s2", <<>>, "NULL", "NULL", "NULL",
                                       "NULL", il["p3"], 5)],
      productRows |-> ProductRows,
      chunks |-> <<Chunk("k1", "p1", Frac(9, 10)),
                   Chunk("k2", "p2", Frac(8, 10)),
                   Chunk("k3", "p3", Frac(7, 10))>>]
     : il \in [{"p1", "p2", "p3"} -> IlikeChoices]}

FilterChoices ==
    {[shopId |-> sh, priceRange |-> pr, categories |-> cs, brands |-> bs,
      availability |-> av, productTypes |-> ty]
     : sh \in {<<>>, <<"s1">>},
       pr \in {<<>>, <<[min |-> <<10>>, max |-> <<20>>]>>,
               <<[min |-> <<>>, max |-> <<10>>]>>,
               <<[min |-> <<30>>, max |-> <<>>]>>},
       cs \in {{}, {"c1"}, {"c1", "c2"}},
       bs \in {{}, {"b1"}},
       av \in {{}, {"in_stock"}},
       ty \in {{}, {"food"}}}

\* Stores for the scoring cases: p1 has three chunks, p2 one, p3 none (it
\* is found by text only); the chunk similarities vary.
ScoreStores ==
    {[products |->
        [pid \in {"p1", "p2", "p3"} |->
            CASE pid = "p1" -> Product("s1", <<10>>, "c1", "b1", "in_stock",
                                       "food", {"name"}, 4)
              [] pid = "p2" -> Product("s1", <<30>>, "c2", "b2",
                                       "out_of_stock", "other", {}, 6)
              [] pid = "p3" -> Product("s2", <<>>, "c1", "b2", "in_stock",
                                       "other", {"brand"}, 5)],
      productRows |-> ProductRows,
      chunks |-> <<Chunk("k1", "p1", sim[1]), Chunk("k2", "p1", sim[2]),
                   Chunk("k3", "p1", sim[3]), Chunk("k4", "p2", sim[4])>>]
     : sim \in [1..4 -> SimValues]}

\* a limit of 0 is left out: whether .limit(0) emits LIMIT 0 is decided
\* by the query builder, not by this code
LimitChoices == {<<>>} \cup {<<l>> : l \in 1..MaxLimit}
OffsetChoices == {<<>>} \cup {<<k>> : k \in 1..MaxOffset}
ThresholdChoices == {<<>>, <<Frac(0 - 1, 2)>>}
WeightChoices == {<<<<>>, <<>>>>, <<<<One>>, <<Frac(1, 2)>>>>}

\* Stores for the rerank cases: category, brand and price of every product
\* vary (NULL, zero and positive prices), relevance is fixed and descending.
RerankAttrs ==
    {[category |-> c, brand |-> b, price |-> pr]
     : c \in {"c1", "c2"}, b \in {"b1", "b2"},
       pr \in {<<>>, <<0>>, <<10>>, <<20>>}}

RerankStores ==
    {[products |->
        [pid \in {"p1", "p2", "p3"} |->
            Product("s1", at[pid].price, at[pid].category, at[pid].brand,
                    "in_stock", "food", {"name"}, 4)],
      productRows |-> ProductRows,
      chunks |-> <<Chunk("k1", "p1", Frac(9, 10)),
                   Chunk("k2", "p2", Frac(8, 10)),
                   Chunk("k3", "p3", Frac(7, 10))>>]
     : at \in [{"p1", "p2", "p3"} -> RerankAttrs]}

\* searchType as the servers accept it, and the function performSearch
\* (and handleProductSearch) calls for it: 'vector' goes to vectorSearch,
\* everything else to hybridSearch
SearchTypes == {"vector", "hybrid", "keyword"}

PerformSearch(searchType) ==
    IF searchType = "vector" THEN "vector" ELSE "hybrid"

Options(searchType, limit, offset, threshold, filters, rerank, weights) ==
    [searchType |-> searchType, mode |-> PerformSearch(searchType),
     limit |-> limit, offset |-> offset,
     threshold |-> threshold, filters |-> filters, rerank |-> rerank,
     includeChunks |-> <<>>,
     vectorWeight |-> weights[1], keywordWeight |-> weights[2]]

\* ------------------------------------------------------------------------
\* The collaborators' behaviour during one request
\* ------------------------------------------------------------------------

\* fault: the external call that fails during this request ("none" if all
\* succeed); dimOk: whether the query embedding has the corpus
\* dimensionality; deletions: products another client deletes while the
\* request is running (their chunks go with them, ON DELETE CASCADE);
\* deleted: the products deleted so far
Environment(fault, dimOk, deletions) ==
    [fault |-> fault, dimOk |-> dimOk, deletions |-> deletions,
     deleted |-> {}]

Calm == Environment("none", TRUE, {})

Faults == {"embed", "chunkQuery", "detailsQuery", "keywordQuery"}

\* an embedder whose failure is swallowed
EmbedFails_Swallowed(e) == FALSE

\* generateEmbeddings logs and rethrows; vectorSearch has no handler
EmbedFails(e) == e.fault = "embed"

\* the chunk query fails when the store fails, or when pgvector compares the
\* query vector with a stored embedding of another dimensionality.  (With
\* no filter condition every stored chunk is compared.)
ChunkQueryFails(st, e) ==
    \/ e.fault = "chunkQuery"
    \/ ~e.dimOk /\ Len(st.chunks) > 0

\* no early return
NothingFound_Never(top) == FALSE

\* `if (topProductIds.length === 0) return []`
NothingFound(top) == Len(top) = 0

\* DELETE FROM products WHERE id = pid, cascading to product_chunks
RemoveProduct(st, pid) ==
    [products |-> [q \in DOMAIN st.products \ {pid} |-> st.products[q]],
     productRows |-> SelectSeq(st.productRows, LAMBDA q : q # pid),
     chunks |-> SelectSeq(st.chunks, LAMBDA c : c.productId # pid)]

\* Stores for the chunk cases: p1 has four chunks, stored in any order of
\* similarity, p2 has one.
ChunkSimValues == {Frac(6, 10), Frac(7, 10), Frac(8, 10), Frac(9, 10)}

ChunkStores ==
    {[products |->
        [pid \in {"p1", "p2"} |->
            Product("s1", <<10>>, "c1", "b1", "in_stock", "food", {"name"}, 4)],
      productRows |-> <<"p1", "p2">>,
      chunks |-> <<Chunk("k1", "p1", sim[1]), Chunk("k2", "p1", sim[2]),
                   Chunk("k3", "p1", sim[3]), Chunk("k4", "p1", sim[4]),
                   Chunk("k5", "p2", Frac(7, 10))>>]
     : sim \in [1..4 -> ChunkSimValues]}

\* Stores for the diversity cases: four products found with relevance
\* 0.9 > 0.85 > 0.8 > 0.75, each with one of four attribute profiles.
DiversityProfiles ==
    {[category |-> "c1", brand |-> "b1", price |-> <<10>>],
     [category |-> "c1", brand |-> "b1", price |-> <<11>>],
     [category |-> "c2", brand |-> "b2", price |-> <<30>>],
     [category |-> "c2", brand |-> "b2", price |-> <<>>]}

DiversityStores ==
    {[products |->
        [pid \in {"p1", "p2", "p3", "p4"} |->
            Product("s1", at[pid].price, at[pid].category, at[pid].brand,
                    "in_stock", "food", {"name"}, 4)],
      productRows |-> <<"p1", "p2", "p3", "p4">>,
      chunks |-> <<Chunk("k1", "p1", Frac(90, 100)),
                   Chunk("k2", "p2", Frac(85, 100)),
                   Chunk("k3", "p3", Frac(80, 100)),
                   Chunk("k4", "p4", Frac(75, 100))>>]
     : at \in [{"p1", "p2", "p3", "p4"} -> DiversityProfiles]}

\* ------------------------------------------------------------------------
\* One search request
\* ------------------------------------------------------------------------

VARIABLES store, opts, env, pc, calls, error, chunkResults, scoreMap,
          topProductIds, results, vectorResults, keywordResults, returned

\* the state of the other subsystems: concurrent search requests, the
\* ingestion path (tables, crawl job, webhook handlers) and the chunk splitter
VARIABLES requests,
          productTable, chunkTable, crawlJob, handlers, effects,
          inputChunk, tokenLimit, parts

searchVars == <<store, opts, env, pc, calls, error, chunkResults, scoreMap,
                topProductIds, results, vectorResults, keywordResults,
                returned>>

concurrencyVars == <<requests>>

ingestVars == <<productTable, chunkTable, crawlJob, handlers, effects>>

splitterVars == <<inputChunk, tokenLimit, parts>>

vars == <<searchVars, concurrencyVars, ingestVars, splitterVars>>

\* the subsystems a specification does not exercise stay in these states
ConcurrencyIdle == requests = <<>>

IngestIdle ==
    /\ productTable = <<>>
    /\ chunkTable = <<>>
    /\ crawlJob = <<>>
    /\ handlers = <<>>
    /\ effects = {}

SplitterIdle ==
    /\ inputChunk = <<>>
    /\ tokenLimit = 0
    /\ parts = <<>>

SearchIdle ==
    /\ store = <<>>
    /\ opts = <<>>
    /\ env = <<>>
    /\ pc = "idle"
    /\ calls = <<>>
    /\ error = <<>>
    /\ chunkResults = <<>>
    /\ scoreMap = <<>>
    /\ topProductIds = <<>>
    /\ results = <<>>
    /\ vectorResults = <<>>
    /\ keywordResults = <<>>
    /\ returned = <<>>

Modes == {"vector", "hybrid"}

InitLocals ==
    /\ pc = "start"
    /\ calls = <<>>
    /\ error = <<>>
    /\ chunkResults = <<>>
    /\ scoreMap = <<>>
    /\ topProductIds = <<>>
    /\ results = <<>>
    /\ vectorResults = <<>>
    /\ keywordResults = <<>>
    /\ returned = <<>>
    /\ ConcurrencyIdle
    /\ IngestIdle
    /\ SplitterIdle

InitFilterCases ==
    /\ store \in FilterStores
    /\ env = Calm
    /\ \E m \in Modes, f \in FilterChoices :
          opts = Options(m, <<>>, <<>>, <<>>, f, FALSE, <<<<>>, <<>>>>)

InitScoreCases ==
    /\ store \in ScoreStores
    /\ env = Calm
    /\ \E m \in Modes, l \in LimitChoices, k \in OffsetChoices,
          t \in ThresholdChoices, w \in WeightChoices :
          opts = Options(m, l, k, t, NoFilters, FALSE, w)

InitRerankCases ==
    /\ store \in RerankStores
    /\ env = Calm
    /\ \E m \in Modes :
          opts = Options(m, <<>>, <<>>, <<>>, NoFilters, TRUE, <<<<>>, <<>>>>)

\* MMR over four results
InitDiversityCases ==
    /\ store \in DiversityStores
    /\ env = Calm
    /\ opts = Options("vector", <<>>, <<>>, <<>>, NoFilters, TRUE,
                      <<<<>>, <<>>>>)

\* one product with four chunks, with and without includeChunks
InitChunkCases ==
    /\ store \in ChunkStores
    /\ env = Calm
    /\ \E m \in Modes, ic \in {<<>>, <<TRUE>>, <<FALSE>>} :
          opts = [Options(m, <<>>, <<>>, <<>>, NoFilters, FALSE,
                          <<<<>>, <<>>>>) EXCEPT !.includeChunks = ic]

\* searchType 'keyword'
InitKeywordCases ==
    /\ store \in FilterStores
    /\ env = Calm
    /\ \E r \in BOOLEAN :
          opts = Options("keyword", <<>>, <<>>, <<>>, NoFilters, r,
                         <<<<>>, <<>>>>)

\* one external call fails, or the query embedding has the wrong length
InitFaultCases ==
    /\ store \in FilterStores
    /\ \/ \E f \in Faults : env = Environment(f, TRUE, {})
       \/ env = Environment("none", FALSE, {})
    /\ \E m \in Modes, r \in BOOLEAN :
          opts = Options(m, <<>>, <<>>, <<>>, NoFilters, r, <<<<>>, <<>>>>)

\* products are deleted by another client while the request runs
InitOrphanCases ==
    /\ store \in FilterStores
    /\ \E d \in (SUBSET {"p1", "p2"}) \ {{}} :
          env = Environment("none", TRUE, d)
    /\ \E r \in BOOLEAN :
          opts = Options("vector", <<>>, <<>>, <<>>, NoFilters, r,
                         <<<<>>, <<>>>>)

Init ==
    /\ InitLocals
    /\ \/ InitFilterCases
       \/ InitScoreCases
       \/ InitRerankCases
       \/ InitDiversityCases
       \/ InitChunkCases
       \/ InitKeywordCases
       \/ InitFaultCases
       \/ InitOrphanCases

Running == pc \notin {"done", "failed"}

\* await generateEmbeddings([query])
Embed ==
    /\ pc = "start"
    /\ calls' = Append(calls, "embed")
    /\ IF EmbedFails(env)
       THEN pc' = "failed" /\ error' = <<"embed">>
       ELSE pc' = "embedded" /\ UNCHANGED error
    /\ UNCHANGED <<store, opts, env, chunkResults, scoreMap, topProductIds,
                   results, vectorResults, keywordResults, returned>>
    /\ UNCHANGED <<concurrencyVars, ingestVars, splitterVars>>

\* the chunk query, the aggregation loop and topProductIds; vectorSearch
\* returns [] here when nothing was found
RunChunkQuery ==
    /\ pc = "embedded"
    /\ calls' = Append(calls, "chunkQuery")
    /\ IF ChunkQueryFails(store, env)
       THEN /\ pc' = "failed"
            /\ error' = <<"chunkQuery">>
            /\ UNCHANGED <<chunkResults, scoreMap, topProductIds,
                           vectorResults, returned>>
       ELSE /\ chunkResults' = ChunkQuery(store, opts)
            /\ scoreMap' = Aggregate(chunkResults')
            /\ topProductIds' = TopProductIds(scoreMap', LimitOf(opts))
            /\ IF NothingFound(topProductIds')
               THEN IF opts.mode = "vector"
                    THEN /\ pc' = "done"
                         /\ returned' = <<>>
                         /\ UNCHANGED vectorResults
                    ELSE /\ pc' = "keyword"
                         /\ vectorResults' = <<>>
                         /\ UNCHANGED returned
               ELSE /\ pc' = "details"
                    /\ UNCHANGED <<vectorResults, returned>>
            /\ UNCHANGED error
    /\ UNCHANGED <<store, opts, env, results, keywordResults>>
    /\ UNCHANGED <<concurrencyVars, ingestVars, splitterVars>>

\* the product-details query, result assembly and the optional rerank;
\* hybridSearch calls vectorSearch with rerank: false
FetchDetails ==
    /\ pc = "details"
    /\ IF env.fault = "detailsQuery"
       THEN /\ pc' = "failed"
            /\ error' = <<"detailsQuery">>
            /\ calls' = Append(calls, "detailsQuery")
            /\ UNCHANGED <<results, vectorResults, returned>>
       ELSE /\ results' = AssembleResults(store, topProductIds,
                                          IncludeChunksOf(opts))
            /\ IF opts.mode = "vector"
               THEN /\ pc' = "done"
                    /\ returned' = VectorReturn(results', opts.rerank)
                    /\ calls' = calls \o <<"detailsQuery">>
                           \o (IF RerankInvoked(results', opts.rerank)
                               THEN <<"rerank">> ELSE <<>>)
                    /\ UNCHANGED vectorResults
               ELSE /\ pc' = "keyword"
                    /\ vectorResults' = VectorReturn(results', FALSE)
                    /\ calls' = calls \o <<"detailsQuery">>
                           \o (IF RerankInvoked(results', FALSE)
                               THEN <<"rerank">> ELSE <<>>)
                    /\ UNCHANGED returned
            /\ UNCHANGED error
    /\ UNCHANGED <<store, opts, env, chunkResults, scoreMap, topProductIds,
                   keywordResults>>
    /\ UNCHANGED <<concurrencyVars, ingestVars, splitterVars>>

\* keywordSearch and the fusion that follows it in hybridSearch
RunKeywordQuery ==
    /\ pc = "keyword"
    /\ calls' = Append(calls, "keywordQuery")
    /\ IF env.fault = "keywordQuery"
       THEN /\ pc' = "failed"
            /\ error' = <<"keywordQuery">>
            /\ UNCHANGED <<keywordResults, returned>>
       ELSE /\ keywordResults' = KeywordSearch(store, opts)
            /\ returned' = Fuse(vectorResults, keywordResults', opts)
            /\ pc' = "done"
            /\ UNCHANGED error
    /\ UNCHANGED <<store, opts, env, chunkResults, scoreMap, topProductIds,
                   results, vectorResults>>
    /\ UNCHANGED <<concurrencyVars, ingestVars, splitterVars>>

\* another client deletes a product while the request is in flight
DeleteProduct ==
    /\ Running
    /\ \E pid \in env.deletions :
          /\ store' = RemoveProduct(store, pid)
          /\ env' = [env EXCEPT !.deletions = @ \ {pid},
                                !.deleted = @ \cup {pid}]
    /\ UNCHANGED <<opts, pc, calls, error, chunkResults, scoreMap,
                   topProductIds, results, vectorResults, keywordResults,
                   returned>>
    /\ UNCHANGED <<concurrencyVars, ingestVars, splitterVars>>

Next ==
    \/ Embed
    \/ RunChunkQuery
    \/ FetchDetails
    \/ RunKeywordQuery
    \/ DeleteProduct

Spec == Init /\ [][Next]_vars

\* ------------------------------------------------------------------------
\* Search requests running concurrently
\* ------------------------------------------------------------------------

\* Every binding of vectorSearch, hybridSearch and keywordSearch is a
\* function-scope const or let; the module scope holds only the db and openai
\* clients.  A request's locals are one record; requests[r] is the activation
\* of request r, and the store is the only thing requests have in common.
Activation(o) ==
    [opts |-> o, pc |-> "start", chunkResults |-> <<>>,
     topProductIds |-> <<>>, results |-> <<>>, vectorResults |-> <<>>,
     keywordResults |-> <<>>, returned |-> <<>>]

RequestIds == {1, 2}

\* locals kept in one place for all requests
LocalsOf_Shared(reqs, r) == reqs[1]

\* the locals request r reads and writes
LocalsOf(reqs, r) == reqs[r]

\* the steps of a request between two suspension points, on its locals
AfterEmbed(q) == [q EXCEPT !.pc = "embedded"]

AfterChunkQuery(st, q) ==
    LET rows == ChunkQuery(st, q.opts)
        top == TopProductIds(Aggregate(rows), LimitOf(q.opts))
    IN  [q EXCEPT !.chunkResults = rows,
                  !.topProductIds = top,
                  !.pc = IF ~NothingFound(top) THEN "details"
                         ELSE IF q.opts.mode = "vector" THEN "done"
                         ELSE "keyword"]

AfterDetails(st, q) ==
    LET res == AssembleResults(st, q.topProductIds, IncludeChunksOf(q.opts))
    IN  IF q.opts.mode = "vector"
        THEN [q EXCEPT !.results = res,
                       !.returned = VectorReturn(res, q.opts.rerank),
                       !.pc = "done"]
        ELSE [q EXCEPT !.results = res,
                       !.vectorResults = VectorReturn(res, FALSE),
                       !.pc = "keyword"]

AfterKeywordQuery(st, q) ==
    LET kw == KeywordSearch(st, q.opts)
    IN  [q EXCEPT !.keywordResults = kw,
                  !.returned = Fuse(q.vectorResults, kw, q.opts),
                  !.pc = "done"]

ShopFilter == [NoFilters EXCEPT !.shopId = <<"s1">>]

ConcurrentOptions ==
    {Options(m, l, <<>>, <<>>, f, r, <<<<>>, <<>>>>)
     : m \in Modes, l \in {<<>>, <<1>>}, f \in {NoFilters, ShopFilter},
       r \in BOOLEAN}

ConcurrentStores ==
    {st \in FilterStores : st.products["p3"].ilike = {"name"}}

ConcurrentInit ==
    /\ store \in ConcurrentStores
    /\ requests \in [RequestIds -> {Activation(o) : o \in ConcurrentOptions}]
    /\ opts = <<>>
    /\ env = Calm
    /\ pc = "idle"
    /\ calls = <<>>
    /\ error = <<>>
    /\ chunkResults = <<>>
    /\ scoreMap = <<>>
    /\ topProductIds = <<>>
    /\ results = <<>>
    /\ vectorResults = <<>>
    /\ keywordResults = <<>>
    /\ returned = <<>>
    /\ IngestIdle
    /\ SplitterIdle

ConcurrentFrame ==
    UNCHANGED <<searchVars, ingestVars, splitterVars>>

EmbedFor(r) ==
    /\ requests[r].pc = "start"
    /\ requests' = [requests EXCEPT ![r] = AfterEmbed(LocalsOf(requests, r))]
    /\ ConcurrentFrame

ChunkQueryFor(r) ==
    /\ requests[r].pc = "embedded"
    /\ requests' = [requests EXCEPT
                       ![r] = AfterChunkQuery(store, LocalsOf(requests, r))]
    /\ ConcurrentFrame

DetailsFor(r) ==
    /\ requests[r].pc = "details"
    /\ requests' = [requests EXCEPT
                       ![r] = AfterDetails(store, LocalsOf(requests, r))]
    /\ ConcurrentFrame

KeywordQueryFor(r) ==
    /\ requests[r].pc = "keyword"
    /\ requests' = [requests EXCEPT
                       ![r] = AfterKeywordQuery(store, LocalsOf(requests, r))]
    /\ ConcurrentFrame

ConcurrentNext ==
    \/ \E r \in RequestIds : EmbedFor(r)
    \/ \E r \in RequestIds : ChunkQueryFor(r)
    \/ \E r \in RequestIds : DetailsFor(r)
    \/ \E r \in RequestIds : KeywordQueryFor(r)

SpecConcurrent == ConcurrentInit /\ [][ConcurrentNext]_vars

\* ------------------------------------------------------------------------
\* Ingestion: processProduct and the Firecrawl webhook handlers
\* ------------------------------------------------------------------------

\* createHash: SHA-256 of the markdown, hex encoded.  Distinct inputs of the
\* model have distinct digests.
CreateHash(markdown) == <<"sha256", markdown>>

\* number of chunks createChunks + splitLargeChunk derive from a page; the
\* second page needs two insert batches
ChunkCount(markdown) == IF markdown = "m1" THEN 2 ELSE 11

BatchSize == 10

\* chunkRecords: one row per chunk, position = index from 0
ChunkRecords(productId, markdown) ==
    [i \in 1..ChunkCount(markdown) |->
        [productId |-> productId, position |-> i - 1,
         version |-> CreateHash(markdown)]]

\* chunkRecords.slice(i, i + batchSize), i counted from 0
Batch(records, i) ==
    SubSeq(records, i + 1,
           IF i + BatchSize < Len(records) THEN i + BatchSize
           ELSE Len(records))

\* delete(productChunks).where(eq(productChunks.productId, id))
DeleteChunksOf(table, productId) ==
    SelectSeq(table, LAMBDA c : c.productId # productId)

\* a stats object without fields, and `(stats.field || 0) + 1`
NoStats ==
    [totalPages |-> <<>>, processedPages |-> <<>>, newProducts |-> <<>>,
     skippedProducts |-> <<>>, errors |-> <<>>]

Incremented(field) == <<OrDefault(field, 0) + 1>>

\* a skip decision that never skips
SkipUnchanged_Never(existing, versionHash) == FALSE

\* `existingProduct && existingProduct.versionHash === versionHash`
SkipUnchanged(existing, versionHash) ==
    existing # <<>> /\ existing[1].versionHash = versionHash

\* the stats written after processProduct returned
CountedStats(currentStats, isNew) ==
    IF isNew
    THEN [currentStats EXCEPT
             !.newProducts = Incremented(currentStats.newProducts),
             !.processedPages = Incremented(currentStats.processedPages)]
    ELSE [currentStats EXCEPT
             !.skippedProducts = Incremented(currentStats.skippedProducts),
             !.processedPages = Incremented(currentStats.processedPages)]

\* handleCrawlCompleted's update of the job row
CompletedJob(job, totalPages) ==
    [job EXCEPT !.status = "completed",
                !.completedAt = TRUE,
                !.stats = [NoStats EXCEPT !.totalPages = <<totalPages>>]]

\* Inputs: the one product URL, the pages delivered for it, the step of
\* processProduct that throws, the handlers in flight
Url == "u1"

Markdowns == {"m1", "m2"}

PageKinds == {"page", "noMarkdown", "invalid"}

Pages ==
    {[kind |-> "page", markdown |-> m] : m \in Markdowns}
        \cup {[kind |-> k, markdown |-> ""] : k \in {"noMarkdown", "invalid"}}

FailurePoints == {"extract", "upsert", "embed", "delete", "insert"}

HandlerIds == {1, 2}

Handler(page, failAt) ==
    [page |-> page, failAt |-> failAt, pc |-> "received", existing |-> <<>>,
     inserted |-> 0, result |-> <<>>, currentStats |-> <<>>]

StoredProduct(markdown) ==
    [id |-> Url, url |-> Url, versionHash |-> CreateHash(markdown)]

IngestInit ==
    /\ \/ productTable = <<>> /\ chunkTable = <<>>
       \/ \E m \in Markdowns :
             /\ productTable = <<StoredProduct(m)>>
             /\ chunkTable = ChunkRecords(Url, m)
    /\ \E pending \in BOOLEAN :
          crawlJob = [status |-> "running", completedAt |-> FALSE,
                      stats |-> NoStats, errorLog |-> <<>>,
                      completedPending |-> pending]
    /\ \E p1, p2 \in Pages, f \in FailurePoints \cup {"none"}, h \in HandlerIds :
          handlers = [i \in HandlerIds |->
                         Handler(IF i = 1 THEN p1 ELSE p2,
                                 IF i = h THEN f ELSE "none")]
    /\ effects = {}
    /\ SearchIdle
    /\ ConcurrencyIdle
    /\ SplitterIdle

IngestFrame == UNCHANGED <<searchVars, concurrencyVars, splitterVars>>

Effect(h, what) == [handler |-> h, what |-> what]

\* processProduct's catch: the call returns an error result
Failed(hd) ==
    [hd EXCEPT !.pc = "readStats",
               !.result = <<[isNew |-> FALSE, error |-> TRUE,
                             product |-> <<>>]>>]

Returned(hd, isNew, product) ==
    [hd EXCEPT !.pc = "readStats",
               !.result = <<[isNew |-> isNew, error |-> FALSE,
                             product |-> <<product>>]>>]

\* handleCrawlPage up to its first await: a page without markdown is
\* skipped, a page the schema rejects throws into the handler's catch
ReceivePage(h) ==
    /\ handlers[h].pc = "received"
    /\ handlers' = [handlers EXCEPT
          ![h].pc = CASE handlers[h].page.kind = "noMarkdown" -> "finished"
                      [] handlers[h].page.kind = "invalid" -> "readError"
                      [] OTHER -> "check"]
    /\ UNCHANGED <<productTable, chunkTable, crawlJob, effects>>
    /\ IngestFrame

\* processProduct: checkProductExists, createHash and the skip decision
CheckExisting(h) ==
    /\ handlers[h].pc = "check"
    /\ LET existing == productTable
           versionHash == CreateHash(handlers[h].page.markdown)
       IN  handlers' = [handlers EXCEPT ![h] =
              IF SkipUnchanged(existing, versionHash)
              THEN Returned([@ EXCEPT !.existing = existing], FALSE,
                            existing[1])
              ELSE [@ EXCEPT !.existing = existing, !.pc = "extract"]]
    /\ effects' = effects \cup {Effect(h, "readProduct")}
    /\ UNCHANGED <<productTable, chunkTable, crawlJob>>
    /\ IngestFrame

\* await extractWithLLM(...)
Extract(h) ==
    /\ handlers[h].pc = "extract"
    /\ handlers' = [handlers EXCEPT ![h] =
          IF @.failAt = "extract" THEN Failed(@) ELSE [@ EXCEPT !.pc = "upsert"]]
    /\ effects' = effects \cup {Effect(h, "llm")}
    /\ UNCHANGED <<productTable, chunkTable, crawlJob>>
    /\ IngestFrame

\* insert(products) ... onConflictDoUpdate({target: products.url})
Upsert(h) ==
    /\ handlers[h].pc = "upsert"
    /\ IF handlers[h].failAt = "upsert"
       THEN /\ handlers' = [handlers EXCEPT ![h] = Failed(@)]
            /\ UNCHANGED <<productTable, effects>>
       ELSE /\ productTable' = <<StoredProduct(handlers[h].page.markdown)>>
            /\ handlers' = [handlers EXCEPT ![h].pc = "embed"]
            /\ effects' = effects \cup {Effect(h, "writeProduct")}
    /\ UNCHANGED <<chunkTable, crawlJob>>
    /\ IngestFrame

\* await generateEmbeddings(chunkTexts)
EmbedChunks(h) ==
    /\ handlers[h].pc = "embed"
    /\ handlers' = [handlers EXCEPT ![h] =
          IF @.failAt = "embed" THEN Failed(@)
          ELSE [@ EXCEPT !.pc = IF handlers[h].existing # <<>> THEN "delete"
                                ELSE "insert"]]
    /\ effects' = effects \cup {Effect(h, "embed")}
    /\ UNCHANGED <<productTable, chunkTable, crawlJob>>
    /\ IngestFrame

\* `if (existingProduct)` delete the product's chunks
DeleteOldChunks(h) ==
    /\ handlers[h].pc = "delete"
    /\ IF handlers[h].failAt = "delete"
       THEN /\ handlers' = [handlers EXCEPT ![h] = Failed(@)]
            /\ UNCHANGED <<chunkTable, effects>>
       ELSE /\ chunkTable' = DeleteChunksOf(chunkTable, Url)
            /\ handlers' = [handlers EXCEPT ![h].pc = "insert"]
            /\ effects' = effects \cup {Effect(h, "deleteChunks")}
    /\ UNCHANGED <<productTable, crawlJob>>
    /\ IngestFrame

\* one iteration of the batch insert loop; a failing insert fails at the
\* last batch
InsertBatch(h) ==
    /\ handlers[h].pc = "insert"
    /\ LET records == ChunkRecords(Url, handlers[h].page.markdown)
           batch == Batch(records, handlers[h].inserted)
           done == handlers[h].inserted + Len(batch)
       IN  IF handlers[h].failAt = "insert" /\ done = Len(records)
           THEN /\ handlers' = [handlers EXCEPT ![h] = Failed(@)]
                /\ UNCHANGED <<chunkTable, effects>>
           ELSE /\ chunkTable' = chunkTable \o batch
                /\ effects' = effects \cup {Effect(h, "insertChunks")}
                /\ handlers' = [handlers EXCEPT ![h] =
                      IF done = Len(records)
                      THEN Returned([@ EXCEPT !.inserted = done],
                                    @.existing = <<>>, productTable[1])
                      ELSE [@ EXCEPT !.inserted = done]]
    /\ UNCHANGED <<productTable, crawlJob>>
    /\ IngestFrame

\* handleCrawlPage after processProduct: select the job row
ReadStats(h) ==
    /\ handlers[h].pc = "readStats"
    /\ handlers' = [handlers EXCEPT ![h].currentStats = <<crawlJob.stats>>,
                                    ![h].pc = "writeStats"]
    /\ UNCHANGED <<productTable, chunkTable, crawlJob, effects>>
    /\ IngestFrame

\* ... and update its stats from the row read
WriteStats(h) ==
    /\ handlers[h].pc = "writeStats"
    /\ crawlJob' = [crawlJob EXCEPT
          !.stats = CountedStats(handlers[h].currentStats[1],
                                 handlers[h].result[1].isNew)]
    /\ handlers' = [handlers EXCEPT ![h].pc = "finished"]
    /\ UNCHANGED <<productTable, chunkTable, effects>>
    /\ IngestFrame

\* handleCrawlPage's catch: select the job row
ReadForError(h) ==
    /\ handlers[h].pc = "readError"
    /\ handlers' = [handlers EXCEPT ![h].currentStats = <<crawlJob>>,
                                    ![h].pc = "writeError"]
    /\ UNCHANGED <<productTable, chunkTable, crawlJob, effects>>
    /\ IngestFrame

\* ... and append to its errorLog and count the error
WriteError(h) ==
    /\ handlers[h].pc = "writeError"
    /\ LET currentJob == handlers[h].currentStats[1]
       IN  crawlJob' = [crawlJob EXCEPT
              !.errorLog = Append(currentJob.errorLog, h),
              !.stats = [currentJob.stats EXCEPT
                            !.errors = Incremented(currentJob.stats.errors)]]
    /\ handlers' = [handlers EXCEPT ![h].pc = "finished"]
    /\ UNCHANGED <<productTable, chunkTable, effects>>
    /\ IngestFrame

\* the crawl.completed event of the job
HandleCrawlCompleted ==
    /\ crawlJob.completedPending
    /\ \E totalPages \in {0, 2} :
          crawlJob' = [CompletedJob(crawlJob, totalPages)
                          EXCEPT !.completedPending = FALSE]
    /\ UNCHANGED <<productTable, chunkTable, handlers, effects>>
    /\ IngestFrame

IngestNext ==
    \/ \E h \in HandlerIds : ReceivePage(h)
    \/ \E h \in HandlerIds : CheckExisting(h)
    \/ \E h \in HandlerIds : Extract(h)
    \/ \E h \in HandlerIds : Upsert(h)
    \/ \E h \in HandlerIds : EmbedChunks(h)
    \/ \E h \in HandlerIds : DeleteOldChunks(h)
    \/ \E h \in HandlerIds : InsertBatch(h)
    \/ \E h \in HandlerIds : ReadStats(h)
    \/ \E h \in HandlerIds : WriteStats(h)
    \/ \E h \in HandlerIds : ReadForError(h)
    \/ \E h \in HandlerIds : WriteError(h)
    \/ HandleCrawlCompleted

SpecIngest == IngestInit /\ [][IngestNext]_vars

\* ------------------------------------------------------------------------
\* Splitting of large chunks (services/chunker.ts)
\* ------------------------------------------------------------------------

\* A text is the sequence of the lengths of its lines: split('\n') and
\* join('\n') are inverse on it, and its length counts one separator between
\* two consecutive lines.
RECURSIVE SumOfLengths(_)
SumOfLengths(lines) ==
    IF lines = <<>> THEN 0 ELSE Head(lines) + SumOfLengths(Tail(lines))

TextLength(lines) ==
    IF lines = <<>> THEN 0 ELSE SumOfLengths(lines) + (Len(lines) - 1)

\* Math.ceil(text.length / 4)
EstimateTokens(text) == (TextLength(text) + 3) \div 4

DefaultMaxTokens == 1500

Part(content, partNumber, totalParts) ==
    [chunkContent |-> content, partNumber |-> partNumber,
     totalParts |-> totalParts]

RECURSIVE SplitLoop(_, _, _, _, _)
SplitLoop(lines, currentContent, currentTokens, chunks, maxTokens) ==
    IF lines = <<>>
    THEN IF Len(currentContent) > 0
         THEN Append(chunks, Part(currentContent, <<Len(chunks) + 1>>,
                                  <<Len(chunks) + 1>>))
         ELSE chunks
    ELSE LET line == <<Head(lines)>>
             lineTokens == EstimateTokens(line)
         IN IF currentTokens + lineTokens > maxTokens
               /\ Len(currentContent) > 0
            THEN SplitLoop(Tail(lines), line, lineTokens,
                           Append(chunks, Part(currentContent,
                                               <<Len(chunks) + 1>>, <<>>)),
                           maxTokens)
            ELSE SplitLoop(Tail(lines), currentContent \o line,
                           currentTokens + lineTokens, chunks, maxTokens)

FitsWhole(chunk, maxTokens) == EstimateTokens(chunk) <= maxTokens

SplitLargeChunk(chunk, maxTokens) ==
    IF FitsWhole(chunk, maxTokens)
    THEN <<Part(chunk, <<>>, <<>>)>>
    ELSE SplitLoop(chunk, <<>>, 0, <<>>, maxTokens)

MaxLines == 3
LineLengths == {0, 4, 3000}
TokenLimits == {1, 2, DefaultMaxTokens}

Texts == UNION {[1..n -> LineLengths] : n \in 1..MaxLines}

SplitInit ==
    /\ inputChunk \in Texts
    /\ tokenLimit \in TokenLimits
    /\ parts = <<>>
    /\ SearchIdle
    /\ ConcurrencyIdle
    /\ IngestIdle

SplitFrame == UNCHANGED <<searchVars, concurrencyVars, ingestVars>>

\* if (estimatedTokens <= maxTokens) return [chunk]
ReturnWhole ==
    /\ parts = <<>>
    /\ FitsWhole(inputChunk, tokenLimit)
    /\ parts' = SplitLargeChunk(inputChunk, tokenLimit)
    /\ UNCHANGED <<inputChunk, tokenLimit>>
    /\ SplitFrame

SplitIntoParts ==
    /\ parts = <<>>
    /\ ~FitsWhole(inputChunk, tokenLimit)
    /\ parts' = SplitLargeChunk(inputChunk, tokenLimit)
    /\ UNCHANGED <<inputChunk, tokenLimit>>
    /\ SplitFrame

SplitNext ==
    \/ ReturnWhole
    \/ SplitIntoParts

SpecSplit == SplitInit /\ [][SplitNext]_vars

\* ------------------------------------------------------------------------
\* Properties
\* ------------------------------------------------------------------------

Ids(rs) == {rs[i].productId : i \in 1..Len(rs)}

NoDuplicateIds(rs) ==
    \A i, j \in 1..Len(rs) : rs[i].productId = rs[j].productId => i = j

VectorDone == pc = "done" /\ opts.mode = "vector"
HybridDone == pc = "done" /\ opts.mode = "hybrid"

\* C1: the reranker returns a permutation of its input: same length, the
\* same productIds, each exactly once; so vectorSearch with rerank = true
\* returns the same products as it would with rerank = false (`results`).
C1_RerankIsPermutation ==
    (VectorDone /\ opts.rerank) =>
        /\ Len(returned) = Len(results)
        /\ Ids(returned) = Ids(results)
        /\ NoDuplicateIds(returned)

\* the filters as the specification states them, on one product row
SatisfiesShop(f, p) == f.shopId # <<>> => p.shopId = f.shopId[1]

SatisfiesPrice(f, p) ==
    f.priceRange # <<>> =>
        /\ f.priceRange[1].min # <<>> =>
               (p.price # <<>> /\ p.price[1] >= f.priceRange[1].min[1])
        /\ f.priceRange[1].max # <<>> =>
               (p.price # <<>> /\ p.price[1] <= f.priceRange[1].max[1])

SatisfiesLists(f, p) ==
    /\ f.categories # {} => p.category \in f.categories
    /\ f.brands # {} => p.brand \in f.brands
    /\ f.availability # {} => p.availability \in f.availability
    /\ f.productTypes # {} => p.productType \in f.productTypes

\* C2: every product vectorSearch returns satisfies all supplied filters at
\* once: shop, inclusive price bounds, and membership in each supplied list.
C2_VectorResultsSatisfyFilters ==
    VectorDone =>
        \A i \in 1..Len(returned) :
            LET p == store.products[returned[i].productId]
            IN  /\ SatisfiesShop(opts.filters, p)
                /\ SatisfiesPrice(opts.filters, p)
                /\ SatisfiesLists(opts.filters, p)

\* a product is returned under a shop filter, a price range whose lower
\* bound equals its price, and all four list filters
C2_Witness ==
    /\ VectorDone
    /\ opts.filters.shopId # <<>>
    /\ opts.filters.categories # {} /\ opts.filters.brands # {}
    /\ opts.filters.availability # {} /\ opts.filters.productTypes # {}
    /\ \E i \in 1..Len(returned) :
          /\ opts.filters.priceRange # <<>>
          /\ opts.filters.priceRange[1].min = returned[i].price

\* C3: every product hybridSearch returns satisfies the supplied
\* categories, brands, availability and productTypes filters.
C3_HybridResultsSatisfyListFilters ==
    HybridDone =>
        \A i \in 1..Len(returned) :
            SatisfiesLists(opts.filters, store.products[returned[i].productId])

\* C4: with a priceRange, every product hybridSearch returns has its price
\* within the inclusive bounds.
C4_HybridResultsSatisfyPriceRange ==
    HybridDone =>
        \A i \in 1..Len(returned) :
            SatisfiesPrice(opts.filters,
                           store.products[returned[i].productId])

\* the score a result list gives a product, 0 if the product is not in it
ScoreIn(rs, pid) ==
    IF pid \in Ids(rs)
    THEN (CHOOSE r \in Range(rs) : r.productId = pid).similarity
    ELSE Zero

\* v * vectorWeight + k * keywordWeight over the two retrievers' lists
FinalScore(pid) ==
    Add(Mul(ScoreIn(vectorResults, pid), VectorWeightOf(opts)),
        Mul(ScoreIn(keywordResults, pid), KeywordWeightOf(opts)))

\* C5: every hybrid result has similarity v * vectorWeight + k *
\* keywordWeight, a missing side counting 0; weights default to 0.7 / 0.3
\* and are not normalised.
C5_HybridScoreFormula ==
    HybridDone =>
        /\ \A i \in 1..Len(returned) :
              returned[i].similarity = FinalScore(returned[i].productId)
        /\ opts.vectorWeight = <<>> => VectorWeightOf(opts) = Frac(7, 10)
        /\ opts.keywordWeight = <<>> => KeywordWeightOf(opts) = Frac(3, 10)

\* v = 0.8 and k = 0.4 under the default weights give 0.68
C5_Witness ==
    /\ HybridDone
    /\ opts.vectorWeight = <<>> /\ opts.keywordWeight = <<>>
    /\ \E i \in 1..Len(returned) :
          /\ ScoreIn(vectorResults, returned[i].productId) = Frac(8, 10)
          /\ ScoreIn(keywordResults, returned[i].productId) = Frac(4, 10)
          /\ returned[i].similarity = Frac(68, 100)

\* C6: hybrid candidates are the union of both retrievers' products: no
\* result comes from outside it, and a member of the union is returned
\* whenever fewer than `limit` other members score at least as high.
C6_HybridUnion ==
    HybridDone =>
        LET union == Ids(vectorResults) \cup Ids(keywordResults)
            AtLeast(x) == {y \in union \ {x} :
                              Leq(FinalScore(x), FinalScore(y))}
        IN  /\ Ids(returned) \subseteq union
            /\ \A x \in union :
                  Cardinality(AtLeast(x)) < HybridLimit(opts)
                      => x \in Ids(returned)

\* one returned product came from the lexical retriever only and another
\* from the vector retriever only
C6_Witness ==
    /\ HybridDone
    /\ (Ids(returned) \cap Ids(keywordResults)) \ Ids(vectorResults) # {}
    /\ (Ids(returned) \cap Ids(vectorResults)) \ Ids(keywordResults) # {}

\* the retrieved hits of a product, and their greatest value and mean
HitsOf(pid) == SelectSeq(chunkResults, LAMBDA c : c.productId = pid)

GreatestHit(hits) ==
    (CHOOSE h \in Range(hits) :
        \A g \in Range(hits) : Leq(g.similarity, h.similarity)).similarity

MeanHit(hits) == Mul(SumSimilarity(hits), Frac(1, Len(hits)))

\* C7: every vectorSearch result has similarity 0.7 * (greatest hit of the
\* product) + 0.3 * (mean of the product's hits).
C7_VectorScoreFormula ==
    VectorDone =>
        \A i \in 1..Len(returned) :
            LET hits == HitsOf(returned[i].productId)
            IN  returned[i].similarity =
                    Add(Mul(Frac(7, 10), GreatestHit(hits)),
                        Mul(Frac(3, 10), MeanHit(hits)))

\* C8: when rerank is requested the result is the MMR reranking of the
\* final relevance-ordered list, in hybridSearch as in vectorSearch; without
\* rerank it is the relevance order itself.
C8_RerankAppliedWhenRequested ==
    /\ VectorDone => returned = IF opts.rerank THEN RerankResults(results)
                                ELSE results
    /\ HybridDone =>
          LET fused == Fuse(vectorResults, keywordResults, opts)
          IN  returned = IF opts.rerank THEN RerankResults(fused) ELSE fused
    /\ (pc = "done" /\ ~opts.rerank) =>
          \A i \in 1..Len(returned) : \A j \in i..Len(returned) :
              Leq(returned[j].similarity, returned[i].similarity)

SortedBySimilarity(rs) ==
    \A i \in 1..Len(rs) : \A j \in i..Len(rs) :
        Leq(rs[j].similarity, rs[i].similarity)

C10_HitsAboveThreshold ==
    /\ \A i \in 1..Len(chunkResults) :
          Greater(chunkResults[i].similarity, ThresholdOf(opts))
    /\ \A i \in 1..Len(topProductIds) :
          \A j \in 1..Len(topProductIds[i].chunks) :
              Greater(topProductIds[i].chunks[j].similarity,
                      ThresholdOf(opts))
    /\ opts.threshold = <<>> => ThresholdOf(opts) = Frac(1, 2)

\* a stored chunk exactly at the threshold is left out while another chunk of
\* the same product is aggregated
C10_Witness ==
    /\ pc = "details"
    /\ \E i \in 1..Len(store.chunks) :
          /\ store.chunks[i].similarity = ThresholdOf(opts)
          /\ store.chunks[i].chunkId
                 \notin {chunkResults[j].chunkId : j \in 1..Len(chunkResults)}
          /\ store.chunks[i].productId \in Ids(topProductIds)

Issued(call) == call \in Range(calls)

Times(call) == Len(SelectSeq(calls, LAMBDA c : c = call))

ChunkQueryAnswered == Issued("chunkQuery") /\ error # <<"chunkQuery">>

\* the number of chunk hits the same request retrieves under threshold t
HitCount(t) == Len(ChunkQuery(store, [opts EXCEPT !.threshold = <<t>>]))

ThresholdLadder == {Frac(0 - 1, 2), Frac(1, 2), Frac(7, 10), Frac(9, 10)}

\* C11: for a fixed store, filters, limit and offset, raising the threshold
\* never increases the number of chunk hits retrieved: a threshold at or
\* above the request's retrieves at most as many hits as the request did,
\* and one at or below it at least as many.
C11_ThresholdMonotone ==
    (ChunkQueryAnswered /\ env.deleted = {}) =>
        \A t \in ThresholdLadder :
            /\ Leq(ThresholdOf(opts), t) => HitCount(t) <= Len(chunkResults)
            /\ Leq(t, ThresholdOf(opts)) => Len(chunkResults) <= HitCount(t)

\* the request retrieved some hits, a higher threshold retrieves strictly
\* fewer and a lower one strictly more
C11_Witness ==
    /\ ChunkQueryAnswered /\ env.deleted = {}
    /\ Len(chunkResults) > 0
    /\ \E t \in ThresholdLadder :
          Less(ThresholdOf(opts), t) /\ HitCount(t) < Len(chunkResults)
    /\ \E t \in ThresholdLadder :
          Less(t, ThresholdOf(opts)) /\ Len(chunkResults) < HitCount(t)

\* C12: with searchType 'keyword' only the lexical retriever runs and each
\* returned similarity is the product's lexical score (no embedding, no
\* vector retrieval, no fusion); with searchType 'vector' only the vector
\* retriever runs.
C12_SearchTypeSelectsRetriever ==
    /\ opts.searchType = "keyword" =>
          /\ ~Issued("embed") /\ ~Issued("chunkQuery")
          /\ pc = "done" =>
                \A i \in 1..Len(returned) :
                    returned[i].similarity =
                        OrZero(LexicalScore(
                                   store.products[returned[i].productId]))
    /\ opts.searchType = "vector" => ~Issued("keywordQuery")

\* the ranked ids that still have a product row when the details are read
Resolvable == SelectSeq(topProductIds,
                        LAMBDA t : t.productId \in DOMAIN store.products)

\* C13: a top-ranked productId without a metadata row is left out of
\* vectorSearch's result without an error; every other ranked product is
\* returned with its score, and in the same relative order.
C13_MissingMetadataOmitted ==
    (VectorDone /\ Issued("detailsQuery")) =>
        /\ error = <<>>
        /\ Ids(returned) \subseteq DOMAIN store.products
        /\ \A i \in 1..Len(returned) :
              \E j \in 1..Len(Resolvable) :
                  /\ Resolvable[j].productId = returned[i].productId
                  /\ Resolvable[j].combinedScore = returned[i].similarity
        /\ ~opts.rerank =>
              /\ Len(returned) = Len(Resolvable)
              /\ \A i \in 1..Len(returned) :
                    returned[i].productId = Resolvable[i].productId

\* the best-ranked product lost its row after the chunk query; the two
\* others are returned
C13_Witness ==
    /\ VectorDone /\ ~opts.rerank
    /\ Len(topProductIds) = 3
    /\ topProductIds[1].productId \notin DOMAIN store.products
    /\ Len(returned) = 2

\* C14: when no chunk passes the threshold and the predicate, vectorSearch
\* returns [] without an error, without a metadata query and without the
\* reranker; hybridSearch returns [] when both retrievers return nothing.
C14_EmptyShortCircuit ==
    /\ (VectorDone /\ chunkResults = <<>>) =>
          /\ returned = <<>>
          /\ error = <<>>
          /\ ~Issued("detailsQuery")
          /\ ~Issued("rerank")
    /\ (HybridDone /\ vectorResults = <<>> /\ keywordResults = <<>>) =>
          returned = <<>>

\* vectorSearch found no chunk although the store holds some
C14_Witness ==
    /\ VectorDone
    /\ store.chunks # <<>>
    /\ chunkResults = <<>>
    /\ calls = <<"embed", "chunkQuery">>

\* C15: when the embedder fails, the search fails with that error after one
\* embedder invocation and no store query; a failing store query makes the
\* search fail rather than return an empty or partial result.
C15_FailuresPropagate ==
    /\ (env.fault = "embed" /\ pc # "start") =>
          /\ pc = "failed"
          /\ error = <<"embed">>
          /\ calls = <<"embed">>
          /\ returned = <<>>
    /\ \A q \in Faults \ {"embed"} :
          (env.fault = q /\ Issued(q)) =>
              /\ pc = "failed"
              /\ error = <<q>>
              /\ returned = <<>>
    /\ Times("embed") <= 1

\* the embedder has failed and the request has ended with its error
C15_Witness ==
    /\ env.fault = "embed"
    /\ pc = "failed"
    /\ error = <<"embed">>

\* C16: a query embedding of the wrong length makes the search fail before
\* any similarity query is sent to the chunk store.
C16_DimensionCheckedBeforeQuery ==
    ~env.dimOk => (~Issued("chunkQuery") /\ pc # "done")

\* the pairwise similarity and the MMR score as the specification states them
ClaimPairSim(a, b) ==
    LET shared == Add(IF a.category = b.category THEN Frac(3, 10) ELSE Zero,
                      IF a.brand = b.brand THEN Frac(3, 10) ELSE Zero)
    IN  IF a.price = <<>> \/ b.price = <<>> THEN shared
        ELSE Add(shared,
                 Mul(Frac(4, 10),
                     Sub(One, Div(Frac(Abs(a.price[1] - b.price[1]), 1),
                                  Frac(IF a.price[1] > b.price[1]
                                       THEN a.price[1] ELSE b.price[1], 1)))))

RECURSIVE ClaimPenalty(_, _)
ClaimPenalty(selected, c) ==
    IF Len(selected) = 1 THEN ClaimPairSim(selected[1], c)
    ELSE MathMax(ClaimPenalty(Tail(selected), c),
                 ClaimPairSim(Head(selected), c))

ClaimMmr(selected, c) ==
    Sub(Mul(Frac(7, 10), c.similarity),
        Mul(Frac(3, 10), ClaimPenalty(selected, c)))

Reranked == VectorDone /\ opts.rerank /\ results # <<>>

NearlyEqualPrice(a, b) ==
    /\ a.price # <<>> /\ b.price # <<>>
    /\ 10 * Abs(a.price[1] - b.price[1])
           <= (IF a.price[1] > b.price[1] THEN a.price[1] ELSE b.price[1])

\* A and B are twins and C is diverse enough to outscore B next to A
DiversityCase(A, B, C) ==
    /\ A.category = B.category /\ A.brand = B.brand
    /\ NearlyEqualPrice(A, B)
    /\ C.category # A.category /\ C.brand # A.brand
    /\ Less(Mul(Frac(7, 10), Sub(B.similarity, C.similarity)),
            Mul(Frac(3, 10), Sub(ClaimPairSim(A, B), ClaimPairSim(A, C))))

\* x is returned, and ahead of y if y is returned too
Ahead(rs, x, y) ==
    \E i \in 1..Len(rs) :
        /\ rs[i].productId = x
        /\ \A j \in 1..Len(rs) : rs[j].productId = y => i < j

\* C18 as stated: when the two most relevant results A and B are twins and a
\* result C is diverse enough, reranking places C ahead of B.
C18_DiverseAheadOfTwin ==
    (Reranked /\ Len(results) >= 3) =>
        \A k \in 3..Len(results) :
            DiversityCase(results[1], results[2], results[k]) =>
                Ahead(returned, results[k].productId, results[2].productId)

\* C18: when the two most relevant results A and B are twins and some
\* result C is diverse enough, reranking keeps A first and does not place B
\* second, so A and B are not the first two results.
C18_TwinNotSecond ==
    (Reranked /\ Len(results) >= 3) =>
        ((\E k \in 3..Len(results) :
              DiversityCase(results[1], results[2], results[k])) =>
            /\ Len(returned) >= 2
            /\ returned[1].productId = results[1].productId
            /\ returned[2].productId # results[2].productId)

\* the fourth result is diverse enough, yet the third is placed second and
\* the twin B third, ahead of the fourth
C18_Witness ==
    /\ Reranked /\ Len(results) = 4 /\ Len(returned) = 4
    /\ DiversityCase(results[1], results[2], results[4])
    /\ returned[2] = results[3]
    /\ returned[3] = results[2]
    /\ returned[4] = results[4]

\* C19: every similarity returned by vectorSearch and by hybridSearch is a
\* finite number, never NaN, also for a product only one retriever returned.
C19_ScoresAreNumbers ==
    /\ \A i \in 1..Len(returned) : ~IsNaN(returned[i].similarity)
    /\ \A i \in 1..Len(vectorResults) : ~IsNaN(vectorResults[i].similarity)
    /\ \A i \in 1..Len(keywordResults) :
          ~IsNaN(keywordResults[i].similarity)

\* hybridSearch returned a product only the lexical retriever found and one
\* only the vector retriever found
C19_Witness ==
    /\ HybridDone
    /\ Ids(returned) \ Ids(vectorResults) # {}
    /\ Ids(returned) \ Ids(keywordResults) # {}

\* C21..C24: one search request, continued

\* the retrieved hits of a product as the aggregator stores them
StoredHit(c) == [chunkId |-> c.chunkId, similarity |-> c.similarity]

\* what C22 says of one result of vectorSearch
ChunksAsSpecified(r) ==
    IF IncludeChunksOf(opts)
    THEN /\ r.chunks # <<>>
         /\ LET attached == r.chunks[1]
                hits == HitsOf(r.productId)
            IN  /\ Len(attached) <= 3
                /\ Len(attached) = (IF Len(hits) < 3 THEN Len(hits) ELSE 3)
                /\ \A i \in 1..Len(attached) :
                      \E j \in 1..Len(hits) : attached[i] = StoredHit(hits[j])
                /\ \A i, j \in 1..Len(attached) :
                      i < j => Leq(attached[j].similarity,
                                   attached[i].similarity)
                /\ \A j \in 1..Len(hits) :
                      \/ StoredHit(hits[j]) \in Range(attached)
                      \/ \A i \in 1..Len(attached) :
                            Leq(hits[j].similarity, attached[i].similarity)
    ELSE r.chunks = <<>>

\* C22: with includeChunks every vectorSearch result carries at most 3
\* chunks, all retrieved for that product, sorted by similarity descending
\* and equal to the product's most similar retrieved chunks; without
\* includeChunks no chunks are attached.
C22_TopChunksAttached ==
    /\ \A i \in 1..Len(results) : ChunksAsSpecified(results[i])
    /\ VectorDone => \A i \in 1..Len(returned) : ChunksAsSpecified(returned[i])

\* a returned product has four retrieved chunks, stored in ascending order
\* of similarity, and carries the three most similar
C22_Witness ==
    /\ VectorDone
    /\ IncludeChunksOf(opts)
    /\ \E i \in 1..Len(returned) :
          /\ Len(HitsOf(returned[i].productId)) = 4
          /\ Len(returned[i].chunks[1]) = 3
    /\ Less(store.chunks[1].similarity, store.chunks[2].similarity)
    /\ Less(store.chunks[2].similarity, store.chunks[3].similarity)
    /\ Less(store.chunks[3].similarity, store.chunks[4].similarity)

\* C23: for every product with retrieved chunks, whatever their
\* similarities in [-1, 1], the aggregator's maxSimilarity is the greatest
\* of them.
C23_MaxIsGreatestHit ==
    ChunkQueryAnswered =>
        \A i \in 1..Len(scoreMap) :
            scoreMap[i].maxSimilarity =
                GreatestHit(HitsOf(scoreMap[i].productId))

KeywordAnswered == Issued("keywordQuery") /\ error # <<"keywordQuery">>

\* the products that satisfy the request's predicate
PredicateMatching ==
    {pid \in DOMAIN store.products :
        /\ SatisfiesShop(opts.filters, store.products[pid])
        /\ SatisfiesPrice(opts.filters, store.products[pid])
        /\ SatisfiesLists(opts.filters, store.products[pid])}

\* the greatest of the four field similarities of a product
BestFieldSimilarity(pid) ==
    LET t == store.products[pid].trgm
    IN  CHOOSE x \in {t.name, t.description, t.category, t.brand} :
            \A y \in {t.name, t.description, t.category, t.brand} : Leq(y, x)

\* C24: keywordSearch returns, after skipping `offset`, the `limit`
\* predicate-matching products of highest score, the score being the greatest
\* of the four field similarities, ordered by score descending; no
\* predicate-matching product that scores higher than a returned one is left
\* out.
C24_KeywordTopByScore ==
    KeywordAnswered =>
        LET n == Cardinality(PredicateMatching) - OffsetOf(opts)
        IN  /\ Ids(keywordResults) \subseteq PredicateMatching
            /\ NoDuplicateIds(keywordResults)
            /\ Len(keywordResults) =
                   (IF n < 0 THEN 0
                    ELSE IF n < LimitOf(opts) THEN n ELSE LimitOf(opts))
            /\ \A i \in 1..Len(keywordResults) :
                  /\ keywordResults[i].similarity =
                         BestFieldSimilarity(keywordResults[i].productId)
                  /\ \A j \in 1..Len(keywordResults) :
                        i < j => Leq(keywordResults[j].similarity,
                                     keywordResults[i].similarity)
                  /\ Cardinality({q \in PredicateMatching :
                                     Greater(BestFieldSimilarity(q),
                                             keywordResults[i].similarity)})
                         <= OffsetOf(opts) + i - 1

\* the result of a request that runs alone against store st
SearchAlone(st, o) ==
    LET rows == ChunkQuery(st, o)
        top == TopProductIds(Aggregate(rows), LimitOf(o))
        res == IF NothingFound(top) THEN <<>>
               ELSE AssembleResults(st, top, IncludeChunksOf(o))
    IN  IF o.mode = "vector" THEN VectorReturn(res, o.rerank)
        ELSE Fuse(VectorReturn(res, FALSE), KeywordSearch(st, o), o)

\* C21: search requests interleaved in any way at their suspension points
\* each return the result they would return when run alone against the same
\* store, and no request changes what it was asked.
C21_RequestsAreIndependent ==
    \A r \in DOMAIN requests :
        /\ requests[r].opts \in ConcurrentOptions
        /\ requests[r].pc = "done" =>
              requests[r].returned = SearchAlone(store, requests[r].opts)

\* two requests with different options have both finished, with different
\* non-empty results, the second one having finished its steps while the
\* first was suspended
C21_Witness ==
    /\ DOMAIN requests = RequestIds
    /\ requests[1].pc = "done" /\ requests[2].pc = "done"
    /\ requests[1].opts # requests[2].opts
    /\ requests[1].returned # <<>> /\ requests[2].returned # <<>>
    /\ requests[1].returned # requests[2].returned

\* C25..C29: ingestion

InProcessProduct(h) ==
    handlers[h].pc \in {"check", "extract", "upsert", "embed", "delete",
                        "insert"}

ProcessProductReturned(h) == handlers[h].result # <<>>

\* the stored chunks are exactly the chunks derived from markdown m
ChunksDerivedFrom(m) ==
    /\ Len(chunkTable) = ChunkCount(m)
    /\ Range(chunkTable) = Range(ChunkRecords(Url, m))

\* C25: once a processProduct call has returned (with a product or with an
\* error) and none is running, a stored product whose versionHash is the hash
\* of markdown M has exactly the chunks derived from M.
C25_HashMatchesChunks ==
    (/\ \E h \in DOMAIN handlers : ProcessProductReturned(h)
     /\ \A h \in DOMAIN handlers : ~InProcessProduct(h)) =>
        \A i \in 1..Len(productTable) : \A m \in Markdowns :
            productTable[i].versionHash = CreateHash(m)
                => ChunksDerivedFrom(m)

\* C26: after two processProduct calls for the same URL, interleaved in any
\* way and none of them failing, the product's chunks are those one call
\* would store: every position once, none from a superseded run.
C26_ConcurrentCallsStoreOneChunkSet ==
    (\A h \in DOMAIN handlers :
        /\ handlers[h].page.kind = "page"
        /\ handlers[h].failAt = "none"
        /\ ProcessProductReturned(h)) =>
        /\ \A i, j \in 1..Len(chunkTable) :
              chunkTable[i].position = chunkTable[j].position => i = j
        /\ \A i \in 1..Len(productTable) : \A m \in Markdowns :
              productTable[i].versionHash = CreateHash(m)
                  => ChunksDerivedFrom(m)

Stat(field) == OrDefault(field, 0)

\* C27: when all page handlers of a job have finished, processedPages is
\* the number of pages for which processProduct returned, and
\* newProducts + skippedProducts = processedPages.
C27_NoIncrementLost ==
    (/\ DOMAIN handlers # {}
     /\ \A h \in DOMAIN handlers : handlers[h].pc = "finished"
     /\ crawlJob.status # "completed") =>
        /\ Stat(crawlJob.stats.processedPages) =
               Cardinality({h \in DOMAIN handlers : ProcessProductReturned(h)})
        /\ Stat(crawlJob.stats.newProducts)
               + Stat(crawlJob.stats.skippedProducts)
               = Stat(crawlJob.stats.processedPages)

\* C28: handling crawl.completed leaves processedPages, newProducts,
\* skippedProducts, errors and the errorLog of the job as they were.
C28_CompletedKeepsCounters ==
    [][HandleCrawlCompleted =>
          /\ crawlJob'.stats.processedPages = crawlJob.stats.processedPages
          /\ crawlJob'.stats.newProducts = crawlJob.stats.newProducts
          /\ crawlJob'.stats.skippedProducts = crawlJob.stats.skippedProducts
          /\ crawlJob'.stats.errors = crawlJob.stats.errors
          /\ crawlJob'.errorLog = crawlJob.errorLog]_vars

\* the handler found the product stored with the hash of its page
FoundUnchanged(h) ==
    /\ handlers[h].page.kind = "page"
    /\ handlers[h].pc \notin {"received", "check"}
    /\ handlers[h].existing # <<>>
    /\ handlers[h].existing[1].versionHash =
           CreateHash(handlers[h].page.markdown)

EffectsOf(h) == {x.what : x \in {y \in effects : y.handler = h}}

\* C29: when the product is stored with the hash of the incoming markdown,
\* processProduct calls neither the LLM nor the embedder, writes nothing and
\* returns isNew = false with the stored product; so processing a page a
\* second time leaves products and chunks as they were.
C29_UnchangedPageSkipped ==
    \A h \in DOMAIN handlers :
        FoundUnchanged(h) =>
            /\ EffectsOf(h) = {"readProduct"}
            /\ handlers[h].result =
                   <<[isNew |-> FALSE, error |-> FALSE,
                      product |-> <<handlers[h].existing[1]>>]>>

\* handler 1 stored a new product and its chunks, then handler 2 received
\* the same page and skipped it
C29_Witness ==
    /\ DOMAIN handlers = HandlerIds
    /\ handlers[1].page = handlers[2].page
    /\ handlers[1].result # <<>> /\ handlers[1].result[1].isNew
    /\ FoundUnchanged(2)
    /\ handlers[2].pc = "finished"
    /\ ChunksDerivedFrom(handlers[2].page.markdown)


\* C30: when no single line of the chunk is estimated above the token limit,
\* every part returned by splitLargeChunk has an estimate (a quarter of the
\* length of its lines joined by newlines, rounded up) within the limit.
NoLineExceeds ==
    \A i \in 1..Len(inputChunk) :
        EstimateTokens(<<inputChunk[i]>>) <= tokenLimit

C30_PartsWithinLimit ==
    (parts # <<>> /\ NoLineExceeds)
        => \A i \in 1..Len(parts) :
               EstimateTokens(parts[i].chunkContent) <= tokenLimit

====
